---- MODULE Spec2Model ----
(***************************************************************************)
(* Model of the joycontrol command console: the Buttons bitmask            *)
(* (src/buttons.py) and the command handlers mash / click / hold / release *)
(* with the cancellable mash_pattern loop (src/run_controller_cli.py).     *)
(*                                                                         *)
(* Time is counted in ticks of half a second (OneSec ticks per second), so *)
(* that intervals with a sub-second tail (0.5, 2.5) and whole-second       *)
(* intervals (1.0, 3.0) are both exact, as they are in Python floats.      *)
(*                                                                         *)
(* Every "await" of the handlers is a suspension point: pc names it,       *)
(* ready says whether the awaited operation has completed, and err what it *)
(* completed with.  The event loop completes awaited operations            *)
(* (sleep_done, send_done, ...) and completes the user's input future      *)
(* (input_done) while the handler is suspended; a handler step runs the    *)
(* code from one await to the next atomically, as asyncio does.            *)
(***************************************************************************)
EXTENDS Integers, Sequences, FiniteSets, TLC

\* ------------------------------------------------------------------ bounds
\* longest mash interval drawn, in ticks
MaxInterval == 6
\* longest hold duration drawn, in ticks
MaxHoldDur == 2
\* press cycles one mash may start
MaxPresses == 2
\* most buttons given to click / hold / release
MaxButtons == 2
\* most arguments given to mash
MaxArgs == 4
\* most flips of a Buttons object between two clears
MaxFlips == 3

\* ticks in the 1.0 s of the per-second cancellation check
OneSec == 2

\* ------------------------------------------------------------- buttons.py
Pow2(n) == IF n = 0 THEN 1 ELSE IF n = 1 THEN 2 ELSE IF n = 2 THEN 4
           ELSE IF n = 3 THEN 8 ELSE IF n = 4 THEN 16 ELSE IF n = 5 THEN 32
           ELSE IF n = 6 THEN 64 ELSE 128

\* a getter that shifts and forgets the "& 1"
get_bit_nomask(value, n) == (value \div Pow2(n)) /= 0

\* (value >> n & 1) != 0
get_bit(value, n) == ((value \div Pow2(n)) % 2) /= 0

\* a flip written with "|": it sets the bit and never clears it
flip_bit_sets(value, n) ==
    IF (value \div Pow2(n)) % 2 = 1 THEN value ELSE value + Pow2(n)

\* a flip written with "+": it carries into the next bit
flip_bit_adds(value, n) == value + Pow2(n)

\* value ^ (1 << n)
flip_bit(value, n) ==
    IF (value \div Pow2(n)) % 2 = 1 THEN value - Pow2(n) ELSE value + Pow2(n)

\* a table with the first two lines of byte 1 exchanged
ButtonTable_swapped ==
    [y |-> <<"byte_1", 1>>, x |-> <<"byte_1", 0>>,
     b |-> <<"byte_1", 2>>, a |-> <<"byte_1", 3>>,
     right_sr |-> <<"byte_1", 4>>, right_sl |-> <<"byte_1", 5>>,
     r |-> <<"byte_1", 6>>, zr |-> <<"byte_1", 7>>,
     minus |-> <<"byte_2", 0>>, plus |-> <<"byte_2", 1>>,
     r_stick |-> <<"byte_2", 2>>, l_stick |-> <<"byte_2", 3>>,
     home |-> <<"byte_2", 4>>, capture |-> <<"byte_2", 5>>,
     down |-> <<"byte_3", 0>>, up |-> <<"byte_3", 1>>,
     right |-> <<"byte_3", 2>>, left |-> <<"byte_3", 3>>,
     left_sr |-> <<"byte_3", 4>>, left_sl |-> <<"byte_3", 5>>,
     l |-> <<"byte_3", 6>>, zl |-> <<"byte_3", 7>>]

\* a table that lost its last line
ButtonTable_short ==
    [y |-> <<"byte_1", 0>>, x |-> <<"byte_1", 1>>,
     b |-> <<"byte_1", 2>>, a |-> <<"byte_1", 3>>,
     right_sr |-> <<"byte_1", 4>>, right_sl |-> <<"byte_1", 5>>,
     r |-> <<"byte_1", 6>>, zr |-> <<"byte_1", 7>>,
     minus |-> <<"byte_2", 0>>, plus |-> <<"byte_2", 1>>,
     r_stick |-> <<"byte_2", 2>>, l_stick |-> <<"byte_2", 3>>,
     home |-> <<"byte_2", 4>>, capture |-> <<"byte_2", 5>>,
     down |-> <<"byte_3", 0>>, up |-> <<"byte_3", 1>>,
     right |-> <<"byte_3", 2>>, left |-> <<"byte_3", 3>>,
     left_sr |-> <<"byte_3", 4>>, left_sl |-> <<"byte_3", 5>>,
     l |-> <<"byte_3", 6>>]

\* the (byte, bit) pair gen_methods is called with for each button
ButtonTable ==
    [y        |-> <<"byte_1", 0>>, x        |-> <<"byte_1", 1>>,
     b        |-> <<"byte_1", 2>>, a        |-> <<"byte_1", 3>>,
     right_sr |-> <<"byte_1", 4>>, right_sl |-> <<"byte_1", 5>>,
     r        |-> <<"byte_1", 6>>, zr       |-> <<"byte_1", 7>>,
     minus    |-> <<"byte_2", 0>>, plus     |-> <<"byte_2", 1>>,
     r_stick  |-> <<"byte_2", 2>>, l_stick  |-> <<"byte_2", 3>>,
     home     |-> <<"byte_2", 4>>, capture  |-> <<"byte_2", 5>>,
     down     |-> <<"byte_3", 0>>, up       |-> <<"byte_3", 1>>,
     right    |-> <<"byte_3", 2>>, left     |-> <<"byte_3", 3>>,
     left_sr  |-> <<"byte_3", 4>>, left_sl  |-> <<"byte_3", 5>>,
     l        |-> <<"byte_3", 6>>, zl       |-> <<"byte_3", 7>>]

\* closures that all see the byte and bit of the last gen_methods call
flip_late_bound(st, button) == [st EXCEPT !.byte_3 = flip_bit(@, 7)]

\* the generated flip() of one button, on the three fields st
flip(st, button) ==
    [st EXCEPT ![ButtonTable[button][1]] = flip_bit(@, ButtonTable[button][2])]

\* the generated getter of one button
is_set(st, button) == get_bit(st[ButtonTable[button][1]], ButtonTable[button][2])

\* Buttons.to_list
to_list(st) == <<st.byte_1, st.byte_2, st.byte_3>>

\* a clear that resets the first field only
clear_first(st) == [st EXCEPT !.byte_1 = 0]

\* Buttons.clear
clear(st) == [byte_1 |-> 0, byte_2 |-> 0, byte_3 |-> 0]

\* the table of the class's docstring: row i is byte i, from bit 0 up
\* (SR and SL of byte 1 are the right Joy-Con's, those of byte 3 the left's)
DocLayout ==
    << <<"y", "x", "b", "a", "right_sr", "right_sl", "r", "zr">>,
       <<"minus", "plus", "r_stick", "l_stick", "home", "capture">>,
       <<"down", "up", "right", "left", "left_sr", "left_sl", "l", "zl">> >>

\* ----------------------------------------------------- external collaborators
\* get_available_buttons(): the button ids of the controller
get_available_buttons == DOMAIN ButtonTable

\* the flips button_press / button_release make for their buttons, in order;
\* a button the state does not know raises, after the flips before it
RECURSIVE FlipAll(_, _)
FlipAll(st, buttons) ==
    IF buttons = <<>> THEN st
    ELSE IF Head(buttons) \notin DOMAIN ButtonTable THEN st
    ELSE FlipAll(flip(st, Head(buttons)), Tail(buttons))

\* ------------------------------------------------------------------ inputs
\* the numbers a user types, as text; NumToks[i + 1] reads as i ticks
NumToks == <<"0.0", "0.5", "1.0", "1.5", "2.0", "2.5", "3.0", "3.5", "4.0",
             "4.5", "5.0">>

\* float(s) succeeds
Parses(s) == \E i \in 1..Len(NumToks) : NumToks[i] = s

\* float(s), in ticks
Float(s) == (CHOOSE i \in 1..Len(NumToks) : NumToks[i] = s) - 1

\* button words a user types: two real buttons and one that does not exist
ButtonWords == {"a", "home", "zz"}

IntervalWords == {NumToks[i + 1] : i \in 0..MaxInterval} \cup {"abc"}

DurationWords == {NumToks[i + 1] : i \in 0..MaxHoldDur} \cup {"abc"}

HoldWords == {"hold", "hodl"}

\* the words that can stand at position i of a mash command
MashWord(i) == IF i = 1 THEN ButtonWords
               ELSE IF i = 2 THEN IntervalWords
               ELSE IF i = 3 THEN HoldWords
               ELSE IF i = 4 THEN DurationWords
               ELSE {"x"}

MashArgs ==
    UNION {{s \in [1..n -> ButtonWords \cup IntervalWords \cup HoldWords
                           \cup DurationWords \cup {"x"}] :
               \A i \in 1..n : s[i] \in MashWord(i)} : n \in 0..MaxArgs}

ButtonArgs == UNION {[1..n -> ButtonWords] : n \in 0..MaxButtons}

\* hold takes buttons, optionally after a duration
HoldArgs == ButtonArgs \cup
            {<<d>> \o bs : d \in DurationWords \ {"abc"}, bs \in ButtonArgs}

VARIABLES
    byte_1, byte_2, byte_3,   \* Buttons: the three fields
    cmd,                      \* the command the dispatcher is running
    args,                     \* its arguments
    pc,                       \* the await the handler is suspended at
    ready,                    \* the awaited operation has completed
    err,                      \* what it completed with
    mp,                       \* mash_pattern's parameters and locals
    user_input,               \* the future of ainput()
    exc,                      \* the exception the handler ended with
    report,                   \* the calls of report_after_interrupt
    obs                       \* what an observer of the run has counted

vars == <<byte_1, byte_2, byte_3, cmd, args, pc, ready, err, mp, user_input,
          exc, report, obs>>

Bytes == [byte_1 |-> byte_1, byte_2 |-> byte_2, byte_3 |-> byte_3]

SetBytes(st) ==
    /\ byte_1' = st.byte_1
    /\ byte_2' = st.byte_2
    /\ byte_3' = st.byte_3

NoInput == [created |-> FALSE, done |-> FALSE, failed |-> FALSE]

NoMash == [button |-> "a", interval |-> "1.0", hold |-> FALSE,
           hold_dur |-> "1.0", presses |-> 0, total_elapsed |-> 0,
           elapsed |-> 0]

\* the observer's counts, started when a command is dispatched
NoObs(st) ==
    [snap |-> st,          \* the fields when the command started
     nflips |-> 0,         \* flips made
     nsends |-> 0,         \* transmits completed
     nfails |-> 0,         \* transmits failed
     npress |-> 0,         \* button presses made by mash_pattern
     nrelease |-> 0,       \* button releases made by mash_pattern
     slept |-> 0,          \* ticks slept in completed holds and interval waits
     waited |-> 0,         \* ticks slept in the current interval
     cancelled |-> "no",   \* where the handler was when the input completed
     lateCycles |-> 0,     \* press cycles started after the input completed
     lateWaits |-> 0,      \* interval sleeps started after it completed
     lateTicks |-> 0]      \* ticks of interval slept after it completed

Init ==
    /\ byte_1 = 0
    /\ byte_2 = 0
    /\ byte_3 = 0
    /\ cmd = "none"
    /\ args = <<>>
    /\ pc = "idle"
    /\ ready = FALSE
    /\ err = "none"
    /\ mp = NoMash
    /\ user_input = NoInput
    /\ exc = "none"
    /\ report = <<>>
    /\ obs = NoObs([byte_1 |-> 0, byte_2 |-> 0, byte_3 |-> 0])


\* ------------------------------------------------------------ control flow
\* suspend at the await p
Goto(p) ==
    /\ pc' = p
    /\ ready' = FALSE
    /\ err' = "none"

\* the handler ends: e is the exception it raises, "none" for a return
Finish(e) ==
    /\ pc' = "done"
    /\ ready' = FALSE
    /\ err' = "none"
    /\ exc' = e

\* the handler can run on from the await p
Resumes(c, p) ==
    /\ cmd = c
    /\ pc = p
    /\ ready
    /\ err = "none"

SleepPcs == {"hold_sleep", "push_sleep", "sec_sleep", "tail_sleep"}

SendPcs == {"press_send", "release_send", "push_press_send",
            "push_release_send"}

ConnectPcs == {"connect"}

\* the ticks asyncio.sleep was called with at the await pc
SleepTicks ==
    IF pc = "sec_sleep" THEN OneSec
    ELSE IF pc = "tail_sleep" THEN Float(mp.interval) - mp.elapsed
    ELSE IF pc = "hold_sleep" /\ cmd = "mash" THEN Float(mp.hold_dur)
    ELSE IF pc = "hold_sleep" THEN Float(args[1])
    ELSE 0

\* ------------------------------------------------------------ ensure_valid_button
\* a validator that returns after looking at the first button only
ensure_valid_button_first(buttons) ==
    buttons = <<>> \/ buttons[1] \in get_available_buttons

\* no ValueError: every button is one of get_available_buttons()
ensure_valid_button(buttons) ==
    \A i \in 1..Len(buttons) : buttons[i] \in get_available_buttons

\* ------------------------------------------------------------ mash_pattern
\* report_after_interrupt(early, remain, press, elapse)
report_after_interrupt(early, remain, press, elapse) ==
    report' = Append(report, [early |-> early, remain |-> remain,
                              press |-> press, elapse |-> elapse])

\* a loop that tests the input at the per-second check only
WhileCond_always(ui) == TRUE

\* a loop test that lost its "not"
WhileCond_negated(ui) == ui.done

\* while not user_input.done()
WhileCond(ui) == ~ui.done

\* a checkpoint that tests done() and never awaits the future
AwaitInputRaises_never(ui) == FALSE

\* "await user_input" on a completed future: raises what it carries
AwaitInputRaises(ui) == ui.failed

\* float(interval) - elapsed, the 'remain' of the early report
EarlyRemain(m) == Float(m.interval) - m.elapsed

\* total_elapsed += elapsed, on the early exit
EarlyElapsed(m) == m.total_elapsed + m.elapsed

\* the head of the outer loop with locals m: the next press, or the
\* "await user_input" and the report after the loop
LoopHead(m, g, ui) ==
    IF WhileCond(ui)
    THEN /\ m.presses < MaxPresses
         /\ mp' = m
         /\ SetBytes(flip(Bytes, m.button))
         /\ Goto(IF m.hold THEN "press_send" ELSE "push_press_send")
         /\ obs' = [g EXCEPT !.nflips = @ + 1, !.npress = @ + 1,
                             !.lateCycles = @ + (IF ui.done THEN 1 ELSE 0)]
         /\ UNCHANGED <<exc, report>>
    ELSE /\ mp' = m
         /\ obs' = g
         /\ UNCHANGED <<byte_1, byte_2, byte_3>>
         /\ IF AwaitInputRaises(ui)
            THEN Finish("InputError") /\ UNCHANGED report
            ELSE /\ report_after_interrupt(FALSE, 0, m.presses, m.total_elapsed)
                 /\ Finish("none")

\* an inner loop that always sleeps a whole second before it looks again
InnerLoop_whole_seconds(m, g, ui) ==
    IF ~Parses(m.interval)
    THEN /\ Finish("ValueError")
         /\ mp' = m
         /\ obs' = g
         /\ UNCHANGED <<byte_1, byte_2, byte_3, report>>
    ELSE IF ~(m.elapsed < Float(m.interval))
    THEN LoopHead([m EXCEPT !.total_elapsed = @ + Float(m.interval)], g, ui)
    ELSE /\ mp' = m
         /\ UNCHANGED <<byte_1, byte_2, byte_3, report, exc>>
         /\ Goto("sec_sleep")
         /\ obs' = [g EXCEPT
               !.lateWaits = @ + (IF ui.done THEN 1 ELSE 0),
               !.lateTicks = @ + (IF ui.done THEN OneSec ELSE 0)]

\* the head of the inner loop with locals m
InnerLoop(m, g, ui) ==
    IF ~Parses(m.interval)
    THEN /\ Finish("ValueError")
         /\ mp' = m
         /\ obs' = g
         /\ UNCHANGED <<byte_1, byte_2, byte_3, report>>
    ELSE IF ~(m.elapsed < Float(m.interval))
    THEN LoopHead([m EXCEPT !.total_elapsed = @ + Float(m.interval)], g, ui)
    ELSE /\ mp' = m
         /\ UNCHANGED <<byte_1, byte_2, byte_3, report, exc>>
         /\ IF Float(m.interval) - m.elapsed < OneSec
            THEN /\ Goto("tail_sleep")
                 /\ obs' = [g EXCEPT
                       !.lateWaits = @ + (IF ui.done THEN 1 ELSE 0),
                       !.lateTicks = @ + (IF ui.done
                                          THEN Float(m.interval) - m.elapsed
                                          ELSE 0)]
            ELSE /\ Goto("sec_sleep")
                 /\ obs' = [g EXCEPT
                       !.lateWaits = @ + (IF ui.done THEN 1 ELSE 0),
                       !.lateTicks = @ + (IF ui.done THEN OneSec ELSE 0)]

\* presses = presses + 1; elapsed = 0.0
AfterAction(m, g, ui) ==
    InnerLoop([m EXCEPT !.presses = @ + 1, !.elapsed = 0],
              [g EXCEPT !.waited = 0], ui)

\* connect() returned: ensure_valid_button, ensure_future(ainput(...)),
\* and the first test of the loop
mash_pattern_start ==
    /\ Resumes("mash", "connect")
    /\ UNCHANGED <<cmd, args>>
    /\ IF ~ensure_valid_button(<<mp.button>>)
       THEN /\ Finish("ValueError")
            /\ UNCHANGED <<byte_1, byte_2, byte_3, mp, user_input, report, obs>>
       ELSE /\ user_input' = [NoInput EXCEPT !.created = TRUE]
            /\ LoopHead(mp, obs, [NoInput EXCEPT !.created = TRUE])

\* button_press returned: asyncio.sleep(float(hold_dur))
mash_pattern_pressed ==
    /\ Resumes("mash", "press_send")
    /\ UNCHANGED <<cmd, args, byte_1, byte_2, byte_3, mp, user_input, report,
                   obs>>
    /\ IF ~Parses(mp.hold_dur)
       THEN Finish("ValueError")
       ELSE Goto("hold_sleep") /\ UNCHANGED exc

\* a hold that tests the input after its sleep and leaves without releasing
mash_pattern_held_checks ==
    /\ Resumes("mash", "hold_sleep")
    /\ UNCHANGED <<cmd, args, user_input>>
    /\ IF user_input.done
       THEN /\ report_after_interrupt(TRUE, 0, mp.presses, mp.total_elapsed)
            /\ Finish("none")
            /\ UNCHANGED <<byte_1, byte_2, byte_3, mp, obs>>
       ELSE /\ SetBytes(flip(Bytes, mp.button))
            /\ obs' = [obs EXCEPT !.nflips = @ + 1, !.nrelease = @ + 1]
            /\ Goto("release_send")
            /\ UNCHANGED <<mp, report, exc>>

\* the hold sleep returned: button_release
mash_pattern_held ==
    /\ Resumes("mash", "hold_sleep")
    /\ SetBytes(flip(Bytes, mp.button))
    /\ obs' = [obs EXCEPT !.nflips = @ + 1, !.nrelease = @ + 1]
    /\ Goto("release_send")
    /\ UNCHANGED <<cmd, args, mp, user_input, report, exc>>

\* button_release returned: total_elapsed += float(hold_dur), presses + 1
mash_pattern_released ==
    /\ Resumes("mash", "release_send")
    /\ UNCHANGED <<cmd, args, user_input>>
    /\ AfterAction([mp EXCEPT !.total_elapsed = @ + Float(mp.hold_dur)],
                   obs, user_input)

\* inside button_push: button_press returned, asyncio.sleep(sec)
push_pressed ==
    /\ pc = "push_press_send"
    /\ ready
    /\ err = "none"
    /\ Goto("push_sleep")
    /\ UNCHANGED <<cmd, args, byte_1, byte_2, byte_3, mp, user_input, report,
                   obs, exc>>

\* the buttons the running primitive was called with
Targets ==
    IF cmd = "mash" THEN <<mp.button>>
    ELSE IF cmd = "hold" /\ Parses(args[1]) THEN Tail(args)
    ELSE args

\* inside button_push: the sleep returned, button_release
push_slept ==
    /\ pc = "push_sleep"
    /\ ready
    /\ err = "none"
    /\ SetBytes(FlipAll(Bytes, Targets))
    /\ obs' = [obs EXCEPT !.nflips = @ + Len(Targets),
                  !.nrelease = @ + (IF cmd = "mash" THEN 1 ELSE 0)]
    /\ Goto("push_release_send")
    /\ UNCHANGED <<cmd, args, mp, user_input, report, exc>>

\* button_push returned: presses + 1
mash_pattern_pushed ==
    /\ Resumes("mash", "push_release_send")
    /\ UNCHANGED <<cmd, args, user_input>>
    /\ AfterAction(mp, obs, user_input)

\* the sub-second sleep returned: total_elapsed += float(interval) - elapsed,
\* break, total_elapsed += float(interval)
mash_pattern_tail ==
    /\ Resumes("mash", "tail_sleep")
    /\ UNCHANGED <<cmd, args, user_input>>
    /\ LoopHead([mp EXCEPT !.total_elapsed =
                     @ + (Float(mp.interval) - mp.elapsed) + Float(mp.interval)],
                obs, user_input)

\* a wait that sleeps its seconds without testing the input
mash_pattern_second_unchecked ==
    /\ Resumes("mash", "sec_sleep")
    /\ UNCHANGED <<cmd, args, user_input>>
    /\ InnerLoop([mp EXCEPT !.elapsed = @ + OneSec], obs, user_input)

\* asyncio.sleep(1.0) returned: the mid-wait check of user_input.done()
mash_pattern_second ==
    /\ Resumes("mash", "sec_sleep")
    /\ UNCHANGED <<cmd, args, user_input>>
    /\ IF user_input.done
       THEN /\ UNCHANGED <<byte_1, byte_2, byte_3, obs>>
            /\ IF AwaitInputRaises(user_input)
               THEN Finish("InputError") /\ UNCHANGED <<mp, report>>
               ELSE /\ mp' = [mp EXCEPT !.total_elapsed = EarlyElapsed(mp)]
                    /\ report_after_interrupt(TRUE, EarlyRemain(mp), mp.presses,
                                              EarlyElapsed(mp))
                    /\ Finish("none")
       ELSE InnerLoop([mp EXCEPT !.elapsed = @ + OneSec], obs, user_input)


\* ------------------------------------------------------------ the commands
\* mash(*args), to its first await
mash ==
    /\ cmd = "mash"
    /\ pc = "start"
    /\ UNCHANGED <<cmd, args, byte_1, byte_2, byte_3, user_input, report, obs>>
    /\ IF Len(args) < 2
       THEN Finish("ValueError") /\ UNCHANGED mp
       ELSE IF Len(args) = 4
       THEN IF args[3] = "hold"
            THEN /\ mp' = [NoMash EXCEPT !.button = args[1],
                              !.interval = args[2], !.hold = TRUE,
                              !.hold_dur = args[4]]
                 /\ Goto("connect")
                 /\ UNCHANGED exc
            ELSE Finish("none") /\ UNCHANGED mp
       ELSE IF Len(args) = 2
       THEN /\ mp' = [NoMash EXCEPT !.button = args[1], !.interval = args[2],
                         !.hold = FALSE, !.hold_dur = "0.0"]
            /\ Goto("connect")
            /\ UNCHANGED exc
       ELSE Finish("none") /\ UNCHANGED mp

\* click(*args), to its first await
click ==
    /\ cmd = "click"
    /\ pc = "start"
    /\ UNCHANGED <<cmd, args, byte_1, byte_2, byte_3, mp, user_input, report,
                   obs>>
    /\ IF args = <<>>
       THEN Finish("ValueError")
       ELSE Goto("connect") /\ UNCHANGED exc

\* click: connect() returned, ensure_valid_button, button_push
click_connected ==
    /\ Resumes("click", "connect")
    /\ UNCHANGED <<cmd, args, mp, user_input, report>>
    /\ IF ~ensure_valid_button(args)
       THEN Finish("ValueError") /\ UNCHANGED <<byte_1, byte_2, byte_3, obs>>
       ELSE /\ SetBytes(FlipAll(Bytes, args))
            /\ obs' = [obs EXCEPT !.nflips = @ + Len(args)]
            /\ Goto("push_press_send")
            /\ UNCHANGED exc

\* click: button_push returned
click_pushed ==
    /\ Resumes("click", "push_release_send")
    /\ Finish("none")
    /\ UNCHANGED <<cmd, args, byte_1, byte_2, byte_3, mp, user_input, report,
                   obs>>

\* hold(*args), to its first await
hold ==
    /\ cmd = "hold"
    /\ pc = "start"
    /\ UNCHANGED <<cmd, args, byte_1, byte_2, byte_3, mp, user_input, report,
                   obs>>
    /\ IF args = <<>>
       THEN Finish("ValueError")
       ELSE IF ~ensure_valid_button(IF Parses(args[1]) THEN Tail(args)
                                    ELSE args)
       THEN Finish("ValueError")
       ELSE Goto("connect") /\ UNCHANGED exc

\* hold: connect() returned, button_press
hold_connected ==
    /\ Resumes("hold", "connect")
    /\ UNCHANGED <<cmd, args, mp, user_input, report>>
    /\ IF Targets = <<>>
       THEN Finish("ValueError") /\ UNCHANGED <<byte_1, byte_2, byte_3, obs>>
       ELSE /\ SetBytes(FlipAll(Bytes, Targets))
            /\ obs' = [obs EXCEPT !.nflips = @ + Len(Targets)]
            /\ Goto("press_send")
            /\ UNCHANGED exc

\* hold: button_press returned; with a duration, asyncio.sleep(float(args[0]))
hold_pressed ==
    /\ Resumes("hold", "press_send")
    /\ UNCHANGED <<cmd, args, byte_1, byte_2, byte_3, mp, user_input, report,
                   obs>>
    /\ IF Parses(args[1])
       THEN Goto("hold_sleep") /\ UNCHANGED exc
       ELSE Finish("none")

\* a timed hold that releases only the first of its buttons
hold_slept_first ==
    /\ Resumes("hold", "hold_sleep")
    /\ SetBytes(flip(Bytes, Targets[1]))
    /\ obs' = [obs EXCEPT !.nflips = @ + 1]
    /\ Goto("release_send")
    /\ UNCHANGED <<cmd, args, mp, user_input, report, exc>>

\* hold: the sleep returned, button_release
hold_slept ==
    /\ Resumes("hold", "hold_sleep")
    /\ SetBytes(FlipAll(Bytes, Targets))
    /\ obs' = [obs EXCEPT !.nflips = @ + Len(Targets)]
    /\ Goto("release_send")
    /\ UNCHANGED <<cmd, args, mp, user_input, report, exc>>

\* hold: button_release returned
hold_released ==
    /\ Resumes("hold", "release_send")
    /\ Finish("none")
    /\ UNCHANGED <<cmd, args, byte_1, byte_2, byte_3, mp, user_input, report,
                   obs>>

\* release(*args), to its first await
release ==
    /\ cmd = "release"
    /\ pc = "start"
    /\ UNCHANGED <<cmd, args, byte_1, byte_2, byte_3, mp, user_input, report,
                   obs>>
    /\ IF args = <<>>
       THEN Finish("ValueError")
       ELSE IF ~ensure_valid_button(args)
       THEN Finish("ValueError")
       ELSE Goto("connect") /\ UNCHANGED exc

\* release: connect() returned, button_release
release_connected ==
    /\ Resumes("release", "connect")
    /\ SetBytes(FlipAll(Bytes, args))
    /\ obs' = [obs EXCEPT !.nflips = @ + Len(args)]
    /\ Goto("release_send")
    /\ UNCHANGED <<cmd, args, mp, user_input, report, exc>>

\* release: button_release returned
release_released ==
    /\ Resumes("release", "release_send")
    /\ Finish("none")
    /\ UNCHANGED <<cmd, args, byte_1, byte_2, byte_3, mp, user_input, report,
                   obs>>

\* a handler that catches the failure of an awaited operation and goes on
await_raises_swallowed ==
    /\ pc \in SendPcs \cup ConnectPcs
    /\ ready
    /\ err /= "none"
    /\ err' = "none"
    /\ UNCHANGED <<cmd, args, byte_1, byte_2, byte_3, pc, ready, mp, user_input,
                   report, obs, exc>>

\* an awaited operation failed: the exception leaves the handler
await_raises ==
    /\ pc \in SendPcs \cup ConnectPcs
    /\ ready
    /\ err /= "none"
    /\ Finish(IF err = "transport" THEN "TransportError" ELSE "ConnectError")
    /\ UNCHANGED <<cmd, args, byte_1, byte_2, byte_3, mp, user_input, report,
                   obs>>

\* ------------------------------------------------------------ the event loop
\* the dispatcher reads the next command line and calls its handler
Dispatch ==
    /\ pc \in {"idle", "done"}
    /\ \E c \in {"mash", "click", "hold", "release"} :
         /\ cmd' = c
         /\ args' \in (IF c = "mash" THEN MashArgs
                       ELSE IF c = "hold" THEN HoldArgs
                       ELSE ButtonArgs)
    /\ pc' = "start"
    /\ ready' = FALSE
    /\ err' = "none"
    /\ mp' = NoMash
    /\ user_input' = NoInput
    /\ exc' = "none"
    /\ report' = <<>>
    /\ obs' = NoObs(Bytes)
    /\ UNCHANGED <<byte_1, byte_2, byte_3>>

\* a sleep's timer fires
sleep_done ==
    /\ pc \in SleepPcs
    /\ ~ready
    /\ ready' = TRUE
    /\ obs' = IF cmd = "mash" /\ pc \in {"sec_sleep", "tail_sleep"}
              THEN [obs EXCEPT !.slept = @ + SleepTicks,
                               !.waited = @ + SleepTicks]
              ELSE IF cmd = "mash" /\ pc = "hold_sleep"
              THEN [obs EXCEPT !.slept = @ + SleepTicks]
              ELSE obs
    /\ UNCHANGED <<byte_1, byte_2, byte_3, cmd, args, pc, err, mp, user_input,
                   exc, report>>

\* the transport has sent the report
send_done ==
    /\ pc \in SendPcs
    /\ ~ready
    /\ ready' = TRUE
    /\ obs' = [obs EXCEPT !.nsends = @ + 1]
    /\ UNCHANGED <<byte_1, byte_2, byte_3, cmd, args, pc, err, mp, user_input,
                   exc, report>>

\* the transport fails to send the report
send_failed ==
    /\ pc \in SendPcs
    /\ ~ready
    /\ ready' = TRUE
    /\ err' = "transport"
    /\ obs' = [obs EXCEPT !.nfails = @ + 1]
    /\ UNCHANGED <<byte_1, byte_2, byte_3, cmd, args, pc, mp, user_input, exc,
                   report>>

\* the controller is connected
connect_done ==
    /\ pc \in ConnectPcs
    /\ ~ready
    /\ ready' = TRUE
    /\ UNCHANGED <<byte_1, byte_2, byte_3, cmd, args, pc, err, mp, user_input,
                   exc, report, obs>>

\* the connection cannot be made
connect_failed ==
    /\ pc \in ConnectPcs
    /\ ~ready
    /\ ready' = TRUE
    /\ err' = "connect"
    /\ UNCHANGED <<byte_1, byte_2, byte_3, cmd, args, pc, mp, user_input, exc,
                   report, obs>>

\* where mash_pattern is when the input future completes
CancelPoint ==
    IF /\ pc \in {"sec_sleep", "tail_sleep"}
       /\ ready
       /\ obs.waited = Float(mp.interval)
    THEN "boundary"
    ELSE IF /\ pc \in {"release_send", "push_release_send"}
            /\ ready
            /\ err = "none"
            /\ Parses(mp.interval)
            /\ Float(mp.interval) = 0
    THEN "boundary"
    ELSE IF pc \in {"sec_sleep", "tail_sleep"} THEN "wait"
    ELSE IF pc \in {"press_send", "hold_sleep"} THEN "hold"
    ELSE "action"

\* the user presses <enter>, or reading the input fails: the future completes
input_done ==
    /\ user_input.created
    /\ ~user_input.done
    /\ pc \in SleepPcs \cup SendPcs
    /\ \E f \in BOOLEAN :
         user_input' = [user_input EXCEPT !.done = TRUE, !.failed = f]
    /\ obs' = [obs EXCEPT !.cancelled = CancelPoint]
    /\ UNCHANGED <<byte_1, byte_2, byte_3, cmd, args, pc, ready, err, mp, exc,
                   report>>

\* the steps of the handlers
Handler ==
    \/ mash
    \/ mash_pattern_start
    \/ mash_pattern_pressed
    \/ mash_pattern_held
    \/ mash_pattern_released
    \/ push_pressed
    \/ push_slept
    \/ mash_pattern_pushed
    \/ mash_pattern_tail
    \/ mash_pattern_second
    \/ click
    \/ click_connected
    \/ click_pushed
    \/ hold
    \/ hold_connected
    \/ hold_pressed
    \/ hold_slept
    \/ hold_released
    \/ release
    \/ release_connected
    \/ release_released
    \/ await_raises

\* the completions of awaited operations
Completes ==
    \/ sleep_done
    \/ send_done
    \/ send_failed
    \/ connect_done
    \/ connect_failed

Next ==
    \/ Dispatch
    \/ Handler
    \/ Completes
    \/ input_done

Spec == Init /\ [][Next]_vars

\* sleeps and awaited operations complete, and a handler that can run does
FairSpec == Spec /\ WF_vars(Completes) /\ WF_vars(Handler)


\* ------------------------------------------------------------------ claims
\* mash_pattern has been entered and has made its input future
InPattern == cmd = "mash" /\ user_input.created

\* the command has ended by returning
Returned == pc = "done" /\ exc = "none"

\* mash_pattern has called report_after_interrupt
Reported == cmd = "mash" /\ report /= <<>>

\* C1: a cancellation found at a per-second check is reported with early=true,
\* presses = the presses made so far, and remaining = the interval minus the
\* seconds actually waited in the current interval at that check.
C1_EarlyReportIsExact ==
    (Reported /\ report[1].early) =>
        /\ report[1].press = obs.npress
        /\ report[1].remain = Float(mp.interval) - obs.waited

\* C2: when the input completes after N full cycles (action done, whole
\* interval waited out) and before the next press, the report is early=false,
\* remaining=0, presses=N, for every interval.
C2_BoundaryCancelIsNotEarly ==
    (InPattern /\ Returned /\ obs.cancelled = "boundary") =>
        /\ Len(report) = 1
        /\ report[1].early = FALSE
        /\ report[1].remain = 0
        /\ report[1].press = obs.npress

\* C3: whenever mash_pattern reports, the reported elapsed time is the time it
\* slept: hold_dur for every completed hold plus all it waited of the intervals.
C3_ElapsedIsTimeSlept ==
    Reported => report[1].elapse = obs.slept

\* the arguments of a mash command are malformed
Malformed(as) ==
    \/ Len(as) \notin {2, 4}
    \/ Len(as) = 4 /\ as[3] /= "hold"
    \/ Len(as) >= 2 /\ ~Parses(as[2])
    \/ Len(as) = 4 /\ ~Parses(as[4])

\* C4: a mash command with malformed arguments makes no flip and no transmit,
\* and ends with the button state it started with.
C4_MalformedMashTouchesNothing ==
    (cmd = "mash" /\ Malformed(args)) =>
        /\ obs.nflips = 0
        /\ obs.nsends = 0
        /\ Bytes = obs.snap

\* the buttons a command was given
Supplied ==
    IF cmd = "mash" THEN (IF args = <<>> THEN <<>> ELSE <<args[1]>>)
    ELSE IF cmd = "hold" /\ args /= <<>> /\ Parses(args[1]) THEN Tail(args)
    ELSE args

InvalidSupplied ==
    /\ cmd \in {"click", "hold", "release", "mash"}
    /\ \E i \in 1..Len(Supplied) : Supplied[i] \notin get_available_buttons

\* mash does not recognise the syntax and returns before mash_pattern
MashUnrecognised ==
    /\ cmd = "mash"
    /\ \/ Len(args) = 3
       \/ Len(args) > 4
       \/ Len(args) = 4 /\ args[3] /= "hold"

\* C5 as stated: with a button that is not available, click, hold, release and
\* mash fail with a validation error, make no flip, and leave the state as it was.
C5_InvalidButtonFailsValidation ==
    InvalidSupplied =>
        /\ obs.nflips = 0
        /\ Bytes = obs.snap
        /\ pc = "done" => exc = "ValueError"

\* C5 as amended: with a button that is not available, no flip is ever made
\* and the state stays as it was; the command ends with the validation error,
\* except that click and mash, which connect first, end with the connection's
\* failure when there is one, and a mash whose syntax is not recognised
\* returns without validating.
C5_InvalidButtonNeverFlips ==
    InvalidSupplied =>
        /\ obs.nflips = 0
        /\ obs.nsends = 0
        /\ Bytes = obs.snap
        /\ pc = "done" =>
             IF MashUnrecognised THEN exc = "none"
             ELSE \/ exc = "ValueError"
                  \/ exc = "ConnectError" /\ cmd \in {"click", "mash"}

C5_Witness ==
    /\ cmd = "click"
    /\ args = <<"a", "zz">>
    /\ pc = "done"
    /\ exc = "ValueError"
    /\ obs.nflips = 0

\* C6: cancellation never interrupts a hold: whenever mash_pattern ends at a
\* checkpoint (returning, or raising the input's failure), it has released as
\* often as it has pressed, also when the input completed between a press and
\* its release.
C6_HoldIsNeverInterrupted ==
    (InPattern /\ pc = "done" /\ exc \in {"none", "InputError"}) =>
        /\ obs.nrelease = obs.npress
        /\ obs.npress = mp.presses

C6_Witness ==
    /\ Reported
    /\ Returned
    /\ mp.hold
    /\ obs.cancelled = "hold"
    /\ obs.npress = 1
    /\ obs.nrelease = 1

\* C7: mash_pattern never returns normally, and never reports, unless the
\* input future has completed; while it has not, and nothing fails, the loop
\* always has a next step: the awaited operation completes or the next press
\* cycle goes on (up to the MaxPresses cycles drawn here).
C7_ReturnsOnlyAfterCancel ==
    /\ (InPattern /\ Returned) => user_input.done
    /\ Reported => user_input.done
    /\ (InPattern /\ ~user_input.done /\ err = "none" /\ exc = "none"
        /\ Parses(mp.interval) /\ Parses(mp.hold_dur)) =>
           /\ pc /= "done"
           /\ IF ready THEN obs.npress < MaxPresses => ENABLED Handler
              ELSE ENABLED Completes

C7_Witness ==
    /\ Reported
    /\ Returned
    /\ user_input.done
    /\ ~report[1].early
    /\ report[1].press = MaxPresses

\* C8: once the input has completed, mash_pattern stops; before it does it
\* starts no press cycle, and it starts at most one interval sleep, of at most
\* one second, and none when the input completed during an interval sleep.
C8_Bounded ==
    InPattern =>
        /\ obs.lateCycles = 0
        /\ obs.lateWaits <= 1
        /\ obs.lateTicks <= OneSec
        /\ obs.cancelled \in {"wait", "boundary"} => obs.lateWaits = 0

C8_StopsAfterCancel ==
    /\ (InPattern /\ user_input.done) ~> (pc = "done")
    /\ []C8_Bounded

C8_Witness ==
    /\ InPattern
    /\ pc = "done"
    /\ user_input.done
    /\ obs.cancelled = "hold"
    /\ obs.lateWaits = 1
    /\ obs.lateTicks = OneSec

\* C9: a transmit that fails inside the mash loop leaves mash_pattern at once
\* as its exception: nothing is caught, and no report is made.
C9_TransportFailurePropagates ==
    (InPattern /\ obs.nfails > 0) =>
        /\ report = <<>>
        /\ obs.nfails = 1
        /\ IF pc = "done" THEN exc = "TransportError"
           ELSE pc \in SendPcs /\ ready /\ err = "transport"

C9_Witness ==
    /\ InPattern
    /\ pc = "done"
    /\ exc = "TransportError"
    /\ obs.npress = 2
    /\ report = <<>>

\* C10: an input future that completed with a failure makes mash_pattern raise
\* that failure at the checkpoint that finds it, early or not: it never
\* returns and never reports.
C10_InputFailureIsRaised ==
    /\ (InPattern /\ user_input.failed /\ pc = "done") =>
           /\ exc \in {"InputError", "TransportError", "ValueError"}
           /\ report = <<>>
    /\ (InPattern /\ user_input.failed /\ pc = "done" /\ obs.nfails = 0
        /\ Parses(mp.interval) /\ Parses(mp.hold_dur)) => exc = "InputError"
    /\ exc = "InputError" => user_input.failed

C10_Witness ==
    /\ InPattern
    /\ pc = "done"
    /\ exc = "InputError"
    /\ obs.cancelled = "wait"
    /\ mp.interval = "2.0"


\* ------------------------------------------------- the Buttons object alone
\* A Buttons object under any caller: flips of any named button, and clears.
\* Here obs is the observer's record of the calls since construction or the
\* last clear.
ZeroBytes == [byte_1 |-> 0, byte_2 |-> 0, byte_3 |-> 0]

ButtonsInit ==
    /\ byte_1 = 0
    /\ byte_2 = 0
    /\ byte_3 = 0
    /\ cmd = "none"
    /\ args = <<>>
    /\ pc = "idle"
    /\ ready = FALSE
    /\ err = "none"
    /\ mp = NoMash
    /\ user_input = NoInput
    /\ exc = "none"
    /\ report = <<>>
    /\ obs = [trace |-> <<>>,        \* the buttons flipped, in order
              last |-> "init",       \* the last call
              before |-> ZeroBytes,  \* the fields before the last call
              before2 |-> ZeroBytes] \* and before the flip preceding a flip

\* a call of the generated flip method of one button
Buttons_flip ==
    /\ Len(obs.trace) < MaxFlips
    /\ \E button \in DOMAIN ButtonTable :
         /\ SetBytes(flip(Bytes, button))
         /\ obs' = [trace |-> Append(obs.trace, button), last |-> "flip",
                    before |-> Bytes,
                    before2 |-> IF obs.last = "flip" THEN obs.before
                                ELSE ZeroBytes]
    /\ UNCHANGED <<cmd, args, pc, ready, err, mp, user_input, exc, report>>

\* a call of Buttons.clear
Buttons_clear ==
    /\ SetBytes(clear(Bytes))
    /\ obs' = [trace |-> <<>>, last |-> "clear", before |-> Bytes,
               before2 |-> ZeroBytes]
    /\ UNCHANGED <<cmd, args, pc, ready, err, mp, user_input, exc, report>>

ButtonsNext ==
    \/ Buttons_flip
    \/ Buttons_clear

ButtonsSpec == ButtonsInit /\ [][ButtonsNext]_vars

\* how often button was flipped since construction or the last clear
Flips(button) ==
    Cardinality({i \in 1..Len(obs.trace) : obs.trace[i] = button})

\* the last two calls were flips of the same button
FlippedTwice ==
    /\ Len(obs.trace) >= 2
    /\ obs.trace[Len(obs.trace)] = obs.trace[Len(obs.trace) - 1]

\* the bit positions of the three fields
Positions == {"byte_1", "byte_2", "byte_3"} \X (0..7)

\* the positions at which the fields s and t differ
Differ(s, t) == {p \in Positions : get_bit(s[p[1]], p[2]) /= get_bit(t[p[1]], p[2])}

\* C11: for every named button B and every reachable state, flip(B) followed
\* by flip(B) returns the three serialized bytes to their values before the
\* first flip.
C11_FlipTwiceRestores ==
    /\ \A button \in DOMAIN ButtonTable :
         to_list(flip(flip(Bytes, button), button)) = to_list(Bytes)
    /\ FlippedTwice => to_list(Bytes) = to_list(obs.before2)

C11_Witness ==
    /\ FlippedTwice
    /\ Len(obs.trace) = 3
    /\ obs.trace[1] /= obs.trace[2]
    /\ to_list(Bytes) = to_list(obs.before2)
    /\ to_list(Bytes) /= <<0, 0, 0>>

\* C12: flip(B) changes only the bit owned by B: every other button reads the
\* same before and after, the two bytes without B's bit are unchanged, and no
\* (byte, bit) position is owned by two named buttons.
C12_FlipChangesOnlyItsBit ==
    /\ \A button \in DOMAIN ButtonTable :
         LET after == flip(Bytes, button) IN
           /\ \A other \in DOMAIN ButtonTable \ {button} :
                is_set(after, other) = is_set(Bytes, other)
           /\ \A field \in {"byte_1", "byte_2", "byte_3"} \ {ButtonTable[button][1]} :
                after[field] = Bytes[field]
           /\ is_set(after, button) /= is_set(Bytes, button)
    /\ \A b1, b2 \in DOMAIN ButtonTable :
         ButtonTable[b1] = ButtonTable[b2] => b1 = b2
    /\ obs.last = "flip" =>
         Differ(Bytes, obs.before) = {ButtonTable[obs.trace[Len(obs.trace)]]}

C12_Witness ==
    /\ obs.last = "flip"
    /\ obs.trace = <<"a", "home", "b">>
    /\ to_list(obs.before) = <<8, 16, 0>>
    /\ to_list(Bytes) = <<12, 16, 0>>

\* C13: is_set(B) is the parity of the number of flips of B since construction
\* or the last clear: true after one flip of an unset bit, false after two.
C13_IsSetIsFlipParity ==
    \A button \in DOMAIN ButtonTable :
        is_set(Bytes, button) = (Flips(button) % 2 = 1)

C13_Witness ==
    /\ Flips("home") = 2
    /\ Flips("zr") = 1
    /\ ~is_set(Bytes, "home")
    /\ is_set(Bytes, "zr")

\* C14: clear() always leaves the serialized state (0,0,0), whatever flips
\* preceded it, and a newly constructed state is (0,0,0).
C14_ClearYieldsZero ==
    obs.last \in {"init", "clear"} => to_list(Bytes) = <<0, 0, 0>>

C14_Witness ==
    /\ obs.last = "clear"
    /\ obs.before.byte_1 /= 0
    /\ obs.before.byte_2 /= 0
    /\ obs.before.byte_3 /= 0
    /\ to_list(Bytes) = <<0, 0, 0>>

\* C15: after any flips of named buttons and clears, each byte is in [0,255]
\* and holds only bits owned by named buttons; bits 6 and 7 of the second
\* byte are never set.
C15_BytesHoldOnlyButtonBits ==
    /\ byte_1 \in 0..255
    /\ byte_2 \in 0..255
    /\ byte_3 \in 0..255
    /\ \A p \in Positions :
         get_bit(Bytes[p[1]], p[2]) => \E button \in DOMAIN ButtonTable :
                                          ButtonTable[button] = p
    /\ ~get_bit(byte_2, 6)
    /\ ~get_bit(byte_2, 7)

C15_Witness ==
    /\ byte_1 = 128
    /\ byte_2 = 32
    /\ byte_3 = 128

\* C16: the layout is the documented table: from the all-zero state, one flip
\* of the button the table names at bit j of byte i sets exactly that bit, and
\* to_list gives byte 1, byte 2, byte 3 in this order.
C16_LayoutIsDocumented ==
    /\ \A i \in 1..3 : \A j \in 1..Len(DocLayout[i]) :
         obs.trace = <<DocLayout[i][j]>> =>
            to_list(Bytes) = [k \in 1..3 |-> IF k = i THEN Pow2(j - 1) ELSE 0]
    /\ to_list(Bytes) = <<byte_1, byte_2, byte_3>>
    /\ Len(obs.trace) = 1 =>
         \E i \in 1..3 : \E j \in 1..Len(DocLayout[i]) :
            obs.trace[1] = DocLayout[i][j]

C16_Witness ==
    /\ obs.trace = <<"capture">>
    /\ to_list(Bytes) = <<0, 32, 0>>

\* C17 as stated: the table defines exactly 20 named buttons, each mapped to
\* exactly one (field, bit-index) pair, the same in every state.
C17_TwentyButtonsOnePairEach ==
    /\ Cardinality(DOMAIN ButtonTable) = 20
    /\ \A button \in DOMAIN ButtonTable :
         /\ ButtonTable[button] \in Positions
         /\ Differ(flip(Bytes, button), Bytes) = {ButtonTable[button]}

\* C17 as amended: the table defines exactly 22 named buttons (8 in byte 1,
\* 6 in byte 2, 8 in byte 3), each mapped to exactly one (field, bit-index)
\* pair, the same in every state.
C17_ButtonsOnePairEach ==
    /\ Cardinality(DOMAIN ButtonTable) = 22
    /\ Cardinality({b \in DOMAIN ButtonTable : ButtonTable[b][1] = "byte_1"}) = 8
    /\ Cardinality({b \in DOMAIN ButtonTable : ButtonTable[b][1] = "byte_2"}) = 6
    /\ Cardinality({b \in DOMAIN ButtonTable : ButtonTable[b][1] = "byte_3"}) = 8
    /\ \A button \in DOMAIN ButtonTable :
         /\ ButtonTable[button] \in Positions
         /\ Differ(flip(Bytes, button), Bytes) = {ButtonTable[button]}

C17_Witness ==
    /\ Len(obs.trace) = MaxFlips
    /\ Cardinality({obs.trace[i] : i \in 1..Len(obs.trace)}) = MaxFlips
    /\ Cardinality(Differ(Bytes, ZeroBytes)) = MaxFlips


\* ------------------------------------------------- the commands, continued
\* a hold command without a duration
HoldNoDuration == cmd = "hold" /\ args /= <<>> /\ ~Parses(args[1])

\* C18: after a hold command without a duration succeeds on valid buttons,
\* every button named in it is held, whatever its state was before the
\* command, also when an earlier hold already held it.
C18_HoldLeavesButtonsHeld ==
    (HoldNoDuration /\ Returned) =>
        \A i \in 1..Len(args) : is_set(Bytes, args[i])

\* C19: after a release command succeeds on valid buttons, every button
\* named in it is released, whatever its state was before the command, also
\* when it was not held.
C19_ReleaseLeavesButtonsReleased ==
    (cmd = "release" /\ Returned) =>
        \A i \in 1..Len(args) : ~is_set(Bytes, args[i])

\* C20: mash_pattern starts no press once the input has completed: the step
\* that presses has tested the input in that same step, with no suspension
\* between test and press; and mash_pattern leaves through a test of the
\* input only after a sleep of the interval has returned, or at the loop head
\* after the cycle's last transmit has returned, never between a flip and its
\* transmit nor between a press and its release.
C20_ChecksOnlyAtCheckpoints ==
    [][(cmd = "mash" /\ pc /= "done") =>
         /\ obs'.npress > obs.npress =>
              ~user_input.done /\ ~user_input'.done
         /\ (user_input.created /\ pc' = "done"
             /\ exc' \in {"none", "InputError"}) =>
              /\ ready
              /\ err = "none"
              /\ \/ pc \in {"sec_sleep", "tail_sleep"}
                 \/ /\ pc \in {"release_send", "push_release_send"}
                    /\ Float(mp.interval) = 0]_vars

C20_Witness ==
    /\ Reported
    /\ Returned
    /\ ~report[1].early
    /\ obs.cancelled = "wait"
    /\ mp.interval = "2.5"
    /\ obs.npress = 1
    /\ obs.lateCycles = 0

\* the interval of the running mash_pattern is below one second
SubSecond == InPattern /\ Parses(mp.interval) /\ Float(mp.interval) < OneSec

\* C21: for an interval below 1 second, a cycle's wait is one sleep of the
\* whole interval (never a per-second sleep) that mash_pattern leaves only
\* once it has returned; no report has early=true; a cancellation that
\* completes during a cycle starts no further press and at most the wait of
\* that cycle, and a mash_pattern that returns has reported once, with
\* early=false and remaining=0.
C21_SubSecondIsOneSleep ==
    [][SubSecond' =>
         /\ pc' /= "sec_sleep"
         /\ pc' = "tail_sleep" =>
              /\ mp'.elapsed = 0
              /\ SleepTicks' = Float(mp'.interval)
              /\ obs'.waited \in {0, Float(mp'.interval)}
         /\ (pc = "tail_sleep" /\ pc' /= "tail_sleep") =>
              /\ ready
              /\ obs.waited = Float(mp.interval)
         /\ \A i \in 1..Len(report') : ~report'[i].early
         /\ obs'.lateCycles = 0
         /\ obs'.lateWaits <= 1
         /\ (pc' = "done" /\ exc' = "none") =>
              /\ user_input'.done
              /\ Len(report') = 1
              /\ report'[1].early = FALSE
              /\ report'[1].remain = 0]_vars

C21_Witness ==
    /\ SubSecond
    /\ Returned
    /\ mp.interval = "0.5"
    /\ obs.cancelled = "wait"
    /\ obs.waited = Float(mp.interval)
    /\ obs.npress = 1
    /\ report[1].early = FALSE
    /\ report[1].remain = 0

\* the running command is click, or hold with a duration
PressAndRelease ==
    \/ cmd = "click"
    \/ cmd = "hold" /\ args /= <<>> /\ Parses(args[1])

\* C22: a click or a hold with a duration that returns leaves the serialized
\* button state as it was when the command started: it has flipped each of its
\* buttons twice, press then release, and transmitted both; and while a
\* command runs the dispatcher starts no other, so the flips between the
\* start and the end of a command are its own.
C22_ClickAndTimedHoldRestore ==
    [][/\ (PressAndRelease' /\ Returned') =>
            /\ to_list(Bytes)' = to_list(obs'.snap)
            /\ obs'.nflips = 2 * Len(Targets')
            /\ obs'.nsends = 2
       /\ pc \notin {"idle", "done"} =>
            /\ cmd' = cmd
            /\ args' = args
            /\ obs'.snap = obs.snap
            /\ to_list(Bytes)' /= to_list(Bytes) =>
                 obs'.nflips > obs.nflips]_vars

C22_Witness ==
    /\ cmd = "hold"
    /\ args = <<"1.0", "a", "home">>
    /\ Returned
    /\ obs.snap /= ZeroBytes
    /\ is_set(obs.snap, "a")
    /\ ~is_set(obs.snap, "home")
    /\ to_list(Bytes) = to_list(obs.snap)

====
